---- MODULE Spec2Model ----
(***************************************************************************)
(* State-machine model of the chat widget (src/src/components/Widget.tsx)  *)
(* and of the HTTP client it calls (src/unnamed/part_005, ChatAPIClient).  *)
(*                                                                         *)
(* Strings that the code inspects, trims, concatenates or searches are     *)
(* sequences of one-character strings.  Opaque tokens (session ids, kinds, *)
(* operation names) are TLA+ strings.                                      *)
(*                                                                         *)
(* Granularity: one action is one event-loop task of the browser: a        *)
(* handler call, or the continuation of handleSendMessage after its await, *)
(* or a timer callback, each together with the React render and the        *)
(* effects that the state changes of that task trigger.  The continuation  *)
(* of handleSendMessage reads the sessionId of the render in which the     *)
(* handler was called (a closure); the pending request carries that value. *)
(***************************************************************************)
EXTENDS Integers, Sequences, FiniteSets, TLC

\* ---------------------------------------------------------------- bounds
MaxMessages == 3
MaxTimers == 2
MaxOnInitCalls == 3

\* ------------------------------------------------------------- constants
NoSession == "null"
null == <<>>
Sessions == {"s1", "s2"}

ErrorPrefix ==
    <<"S", "o", "r", "r", "y", ",", " ", "I", " ", "e", "n", "c", "o", "u", "n", "t", "e", "r", "e", "d", " ", "a", "n", " ", "e", "r", "r", "o", "r", ":", " ">>
FailedToGetResponse ==
    <<"F", "a", "i", "l", "e", "d", " ", "t", "o", " ", "g", "e", "t", " ", "r", "e", "s", "p", "o", "n", "s", "e">>
AnErrorOccurred ==
    <<"A", "n", " ", "e", "r", "r", "o", "r", " ", "o", "c", "c", "u", "r", "r", "e", "d">>
BaseUrlRequired ==
    <<"B", "a", "s", "e", " ", "U", "R", "L", " ", "i", "s", " ", "r", "e", "q", "u", "i", "r", "e", "d">>
NetworkError ==
    <<"N", "e", "t", "w", "o", "r", "k", " ", "e", "r", "r", "o", "r">>
HttpErrorPrefix ==
    <<"H", "T", "T", "P", " ", "e", "r", "r", "o", "r", "!", " ", "s", "t", "a", "t", "u", "s", ":", " ">>
QuestionCannotBeEmpty ==
    <<"Q", "u", "e", "s", "t", "i", "o", "n", " ", "c", "a", "n", "n", "o", "t", " ", "b", "e", " ", "e", "m", "p", "t", "y">>
DefaultWelcome ==
    <<"H", "e", "l", "l", "o", "!", " ", "H", "o", "w", " ", "c", "a", "n", " ", "I", " ", "h", "e", "l", "p", " ", "y", "o", "u", " ", "t", "o", "d", "a", "y", "?">>
Yes ==
    <<"Y", "e", "s">>
BlankLine ==
    <<"\n", "\n">>

\* ------------------------------------------------------------ input sets
\* Questions the form can hand to handleSendMessage: an empty one, a blank
\* one and one with text between spaces.  "Yes" is sent by the follow-up
\* button.
Questions ==
    { <<>>, <<" ", " ", " ">>, <<" ", "h", "i", " ">> }

\* Values of the props baseUrl and welcomeMessage ("" is an absent value).
BaseUrls == { "", "http://localhost:8080" }
WelcomeMessages == { <<>>, DefaultWelcome }

\* What the session slot of localStorage can hold when the page loads:
\* nothing or an identifier (which one makes no difference: the code only
\* compares identifiers for equality).
StoredValues == { "s1", NoSession }

Answers == { <<"O", "k">> }
FollowUps == { null, <<"M", "o", "r", "e", "?">> }
HttpStatuses == { 500 }

\* Outcomes of fetch for one request: a rejection, a non-2xx answer, or a
\* JSON payload of the shape ApiResponse<AskQuestionResponse>.
Outcome(kind, httpStatus, status, code, message, answer, follow_up_question, session_id) ==
    [ kind |-> kind, httpStatus |-> httpStatus, status |-> status, code |-> code,
      message |-> message, answer |-> answer,
      follow_up_question |-> follow_up_question,
      conversation_id |-> 1, session_id |-> session_id ]

NoOutcome == Outcome("none", 0, FALSE, "", <<>>, <<>>, null, NoSession)

Outcomes ==
    { Outcome("reject", 0, FALSE, "", NetworkError, <<>>, null, NoSession),
      Outcome("rejectNonError", 0, FALSE, "", <<>>, <<>>, null, NoSession) }
    \cup { Outcome("http", s, FALSE, "", QuestionCannotBeEmpty, <<>>, null, NoSession) :
             s \in HttpStatuses }
    \cup { Outcome("json", 200, FALSE, "01", m, <<>>, null, NoSession) :
             m \in { <<>>, QuestionCannotBeEmpty } }
    \cup { Outcome("json", 200, TRUE, "01", QuestionCannotBeEmpty, a, null, "s1") :
             a \in Answers }
    \cup { Outcome("json", 200, TRUE, "00", <<"o", "k">>, a, f, s) :
             a \in Answers, f \in FollowUps, s \in Sessions }

\* ----------------------------------------------------------------- state
VARIABLES
    baseUrl,          \* prop
    welcomeMessage,   \* prop
    isOpen, isAnimating, messages, isLoading, error, sessionId,
    apiClientRef,     \* TRUE when apiClientRef.current holds a client
    localStorage,     \* the value stored under sessionStorageKey
    requests,         \* requests handed to fetch and not yet settled
    timers,           \* pending setTimeout callbacks of toggleModal, oldest first
    now,              \* Date.now() at the time of the step
    call,             \* the operation performed by the last step
    storageOps,       \* the localStorage calls made by the last step
    onInit,           \* prop: the identity of the callback passed by the parent
    onInitCalls,      \* how often onInit was called since the widget mounted
    closeToggled,     \* toggleModal was called since the modal was last opened
    \* One MessageBubble and the useTypewriter hook it calls:
    message,          \* prop
    enableTypewriter, \* prop
    typewriterSpeed,  \* prop
    text,             \* the text the hook was last rendered with
    displayedText,    \* hook state
    isTyping,         \* hook state
    intervals         \* the texts of the hook's running tick timers

revealVars == << message, enableTypewriter, typewriterSpeed, text,
                 displayedText, isTyping, intervals >>

vars == << baseUrl, welcomeMessage, isOpen, isAnimating, messages, isLoading,
           error, sessionId, apiClientRef, localStorage, requests, timers, now,
           call, storageOps, onInit, onInitCalls, closeToggled, revealVars >>

\* ---------------------------------------------------------------- helpers
IsSpace(c) == c \in {" ", "\n", "\t"}

RECURSIVE TrimStart(_)
TrimStart(s) ==
    IF s # <<>> /\ IsSpace(Head(s)) THEN TrimStart(Tail(s)) ELSE s

RECURSIVE TrimEnd(_)
TrimEnd(s) ==
    IF s # <<>> /\ IsSpace(s[Len(s)]) THEN TrimEnd(SubSeq(s, 1, Len(s) - 1)) ELSE s

\* String.prototype.trim
Trim(s) == TrimEnd(TrimStart(s))

Digit(d) == <<"0", "1", "2", "3", "4", "5", "6", "7", "8", "9">>[d + 1]

RECURSIVE NumberToString(_)
NumberToString(n) ==
    IF n < 10 THEN <<Digit(n)>> ELSE NumberToString(n \div 10) \o <<Digit(n % 10)>>

MessageId(kind, time) == [ kind |-> kind, time |-> time ]

\* A ChatMessage; conversationId 0 and followUpQuestion null stand for
\* fields that are not set, skipTypewriter FALSE for an unset flag.
ChatMessage(id, type, content, conversationId, followUpQuestion) ==
    [ id |-> id, type |-> type, content |-> content,
      conversationId |-> conversationId,
      followUpQuestion |-> followUpQuestion, skipTypewriter |-> FALSE ]

WelcomeMsg(time) ==
    ChatMessage(MessageId("welcome", time), "assistant", welcomeMessage, 0, null)

Call(op, question, accepted, outcome) ==
    [ op |-> op, question |-> question, accepted |-> accepted, outcome |-> outcome ]

SetItem(v) == [ op |-> "setItem", value |-> v ]
RemoveItem == [ op |-> "removeItem", value |-> NoSession ]

\* The modal, and with it the form, the clear button and the bubbles, is
\* rendered only while isOpen or isAnimating.
ModalRendered == isOpen \/ isAnimating


\* ----------------------------------------------------------------- mount
\* The first render and its effects: the initialization effect, then the
\* session save effect of the render that follows setSessionId.
\* Mutant: the initialization effect does not restore the session.
MountSession_NoRestore(url, stored) == NoSession

MountSession(url, stored) ==
    IF url # "" /\ stored # NoSession THEN stored ELSE NoSession

MountStorageOps(url, stored) ==
    IF MountSession(url, stored) # NoSession
    THEN << SetItem(MountSession(url, stored)) >>
    ELSE << >>

\* Mutant: onInit is called before the baseUrl test.
MountOnInitCalls_BeforeTest(url) == 1

\* The initialization effect calls onInit unless it returned on a missing
\* baseUrl.
MountOnInitCalls(url) == IF url # "" THEN 1 ELSE 0

\* The bubble variables while the widget, not a single bubble, is studied.
BubbleIdle ==
    /\ message = ChatMessage(MessageId("user", 0), "user", <<>>, 0, null)
    /\ enableTypewriter = FALSE
    /\ typewriterSpeed = 0
    /\ text = <<>>
    /\ displayedText = <<>>
    /\ isTyping = FALSE
    /\ intervals = {}

Init ==
    /\ baseUrl \in BaseUrls
    /\ welcomeMessage \in WelcomeMessages
    /\ localStorage \in StoredValues
    /\ isOpen = FALSE
    /\ isAnimating = FALSE
    /\ messages = << >>
    /\ isLoading = FALSE
    /\ error = IF baseUrl = "" THEN BaseUrlRequired ELSE null
    /\ apiClientRef = (baseUrl # "")
    /\ sessionId = MountSession(baseUrl, localStorage)
    /\ requests = << >>
    /\ timers = << >>
    /\ now = 0
    /\ call = Call("initialize", <<>>, FALSE, NoOutcome)
    /\ storageOps = MountStorageOps(baseUrl, localStorage)
    /\ onInit = "f1"
    /\ onInitCalls = MountOnInitCalls(baseUrl)
    /\ closeToggled = FALSE
    /\ BubbleIdle

\* A page reload: the script state is lost, pending requests and timers go
\* with the page, localStorage stays, and the widget mounts again.
Reload ==
    /\ isOpen' = FALSE
    /\ isAnimating' = FALSE
    /\ messages' = << >>
    /\ isLoading' = FALSE
    /\ error' = IF baseUrl = "" THEN BaseUrlRequired ELSE null
    /\ apiClientRef' = (baseUrl # "")
    /\ sessionId' = MountSession(baseUrl, localStorage)
    /\ requests' = << >>
    /\ timers' = << >>
    /\ call' = Call("initialize", <<>>, FALSE, NoOutcome)
    /\ storageOps' = MountStorageOps(baseUrl, localStorage)
    /\ onInitCalls' = MountOnInitCalls(baseUrl)
    /\ closeToggled' = FALSE
    /\ UNCHANGED << onInit, revealVars >>
    /\ UNCHANGED << baseUrl, welcomeMessage, localStorage, now >>

\* ----------------------------------------------------------- toggleModal
\* The two effects keyed on isOpen, run when isOpen has become true: the
\* first marks the messages of the list, the second seeds the welcome
\* message when the rendered list was empty.
\* Mutant: opening the modal leaves the messages as they are.
MarkSkipTypewriter_None(msgs) == msgs

MarkSkipTypewriter(msgs) ==
    [ i \in 1..Len(msgs) |-> [ msgs[i] EXCEPT !.skipTypewriter = TRUE ] ]

\* Mutant: the welcome effect does not look at the length of the list.
OpenEffects_AlwaysWelcome(msgs) ==
    IF welcomeMessage # <<>>
    THEN << WelcomeMsg(now) >>
    ELSE MarkSkipTypewriter(msgs)

OpenEffects(msgs) ==
    IF Len(msgs) = 0 /\ welcomeMessage # <<>>
    THEN << WelcomeMsg(now) >>
    ELSE MarkSkipTypewriter(msgs)

ToggleModal ==
    /\ Len(timers) < MaxTimers
    /\ IF isOpen
       THEN /\ isAnimating' = TRUE
            /\ timers' = Append(timers, "close")
            /\ UNCHANGED << isOpen, messages >>
       ELSE /\ isOpen' = TRUE
            /\ isAnimating' = TRUE
            /\ timers' = Append(timers, "anim")
            /\ messages' = OpenEffects(messages)
    /\ closeToggled' = isOpen
    /\ call' = Call("toggle", <<>>, FALSE, NoOutcome)
    /\ storageOps' = << >>
    /\ UNCHANGED << onInit, onInitCalls, revealVars >>
    /\ UNCHANGED << baseUrl, welcomeMessage, isLoading, error, sessionId,
                    apiClientRef, localStorage, requests, now >>

\* A timer may fire once every timer that is due no later has fired: a
\* 300 ms timer after all timers set before it, a 10 ms timer after the
\* 10 ms timers set before it.
MayFire(i) ==
    IF timers[i] = "close"
    THEN i = 1
    ELSE \A j \in 1..(i - 1) : timers[j] # "anim"

RemoveAt(s, i) == SubSeq(s, 1, i - 1) \o SubSeq(s, i + 1, Len(s))

TimerFires ==
    \E i \in 1..Len(timers) :
        /\ MayFire(i)
        /\ timers' = RemoveAt(timers, i)
        /\ IF timers[i] = "close"
           THEN isOpen' = FALSE /\ isAnimating' = FALSE
           ELSE isAnimating' = FALSE /\ UNCHANGED isOpen
        /\ call' = Call("timer", <<>>, FALSE, NoOutcome)
        /\ storageOps' = << >>
        /\ UNCHANGED << onInit, onInitCalls, closeToggled, revealVars >>
        /\ UNCHANGED << baseUrl, welcomeMessage, messages, isLoading, error,
                        sessionId, apiClientRef, localStorage, requests, now >>

\* ----------------------------------------------------- handleSendMessage
\* Mutant: the guard tests the question without trimming it.
SendReturnsEarly_NoTrim(question) ==
    question = <<>> \/ isLoading \/ ~apiClientRef

\* Mutant: the guard does not test isLoading.
SendReturnsEarly_NoLoadingGuard(question) ==
    Trim(question) = <<>> \/ ~apiClientRef

\* The guard of handleSendMessage: TRUE when the call returns at once.
SendReturnsEarly(question) ==
    Trim(question) = <<>> \/ isLoading \/ ~apiClientRef

UserMessage(question) ==
    ChatMessage(MessageId("user", now), "user", question, 0, null)

\* Mutant: the request never carries a session identifier.
Request_NoSession(question) ==
    [ question |-> Trim(question),
      session_id |-> NoSession,
      closureSessionId |-> sessionId,
      lenBefore |-> Len(messages) ]

\* What askQuestion puts in the request body, with the sessionId of the
\* calling render, which the continuation of the handler keeps reading.
Request(question) ==
    [ question |-> Trim(question),
      session_id |-> sessionId,
      closureSessionId |-> sessionId,
      lenBefore |-> Len(messages) ]

\* The body of handleSendMessage up to the await; op and arg say which
\* handler of the form or of a bubble called it, and with what.
SendMessage(question, op, arg) ==
    /\ ModalRendered
    /\ Len(messages) < MaxMessages
    /\ IF SendReturnsEarly(question)
       THEN /\ call' = Call(op, arg, FALSE, NoOutcome)
            /\ UNCHANGED << messages, isLoading, error, requests >>
       ELSE /\ call' = Call(op, arg, TRUE, NoOutcome)
            /\ messages' = Append(messages, UserMessage(question))
            /\ isLoading' = TRUE
            /\ error' = null
            /\ requests' = Append(requests, Request(question))
    /\ storageOps' = << >>
    /\ UNCHANGED << onInit, onInitCalls, closeToggled, revealVars >>
    /\ UNCHANGED << baseUrl, welcomeMessage, isOpen, isAnimating, sessionId,
                    apiClientRef, localStorage, timers, now >>

HandleSendMessage(question) == SendMessage(question, "send", question)

\* Mutant: the clicked follow-up question is sent.
FollowUpQuestionSent_Clicked(followUpQuestion) == followUpQuestion

\* What handleFollowUpClick hands to handleSendMessage.
FollowUpQuestionSent(followUpQuestion) == Yes

\* The follow-up questions of the bubbles in the list.
FollowUpButtons ==
    { messages[i].followUpQuestion : i \in 1..Len(messages) } \ { null }

\* The follow-up button of a bubble is clicked.
HandleFollowUpClick(followUpQuestion) ==
    /\ followUpQuestion \in FollowUpButtons
    /\ SendMessage(FollowUpQuestionSent(followUpQuestion), "followUp",
                   followUpQuestion)

\* Mutant: the success branch is taken on the status flag alone.
IsSuccess_StatusOnly(outcome) ==
    outcome.kind = "json" /\ outcome.status

\* ----------------------------------------- the continuation after await
\* askQuestion resolves with the payload only for a 2xx answer; the handler
\* takes the success branch only for status && code === "00".
IsSuccess(outcome) ==
    outcome.kind = "json" /\ outcome.status /\ outcome.code = "00"

\* The text of the error caught by the handler.
\* Mutant: every failure is reported with the fallback text.
ErrorMessage_Fallback(outcome) == FailedToGetResponse

ErrorMessage(outcome) ==
    CASE outcome.kind = "reject" -> outcome.message
      [] outcome.kind = "rejectNonError" -> AnErrorOccurred
      [] outcome.kind = "http" -> HttpErrorPrefix \o NumberToString(outcome.httpStatus)
      [] OTHER -> IF outcome.message # <<>> THEN outcome.message
                  ELSE FailedToGetResponse

\* Mutant: the follow-up question is appended without the separator.
FullContent_NoSeparator(outcome) ==
    outcome.answer \o outcome.follow_up_question

FullContent(outcome) ==
    IF outcome.follow_up_question # null
    THEN outcome.answer \o BlankLine \o outcome.follow_up_question
    ELSE outcome.answer

AssistantMessage(outcome) ==
    ChatMessage(MessageId("assistant", now), "assistant", FullContent(outcome),
                outcome.conversation_id, outcome.follow_up_question)

\* Mutant: the error message gets an id of the assistant kind.
ErrorMsg_AssistantId(outcome) ==
    ChatMessage(MessageId("assistant", now), "assistant",
                ErrorPrefix \o ErrorMessage(outcome), 0, null)

ErrorMsg(outcome) ==
    ChatMessage(MessageId("error", now), "assistant",
                ErrorPrefix \o ErrorMessage(outcome), 0, null)

\* Mutant: isLoading is cleared at the end of the try block only.
FinallyIsLoading_OnlyOnSuccess(outcome) ==
    IF outcome.kind = "json" /\ outcome.status /\ outcome.code = "00"
    THEN FALSE
    ELSE isLoading

\* The finally block: isLoading after the attempt, whatever its outcome.
FinallyIsLoading(outcome) == FALSE

\* The sessionId after the success branch: setSessionId is called when the
\* response's session_id differs from the sessionId of the calling render.
AdoptedSession(req, outcome) ==
    IF outcome.session_id # NoSession /\ outcome.session_id # req.closureSessionId
    THEN outcome.session_id
    ELSE sessionId

\* Mutant: the save effect runs after every render, not only after a
\* change of sessionId.
SaveEffect_EveryRender(newSessionId) ==
    IF newSessionId # NoSession
    THEN /\ localStorage' = newSessionId
         /\ storageOps' = << SetItem(newSessionId) >>
    ELSE /\ localStorage' = localStorage
         /\ storageOps' = << >>

\* The session save effect, run after a render in which sessionId changed.
\* Mutant: the session identifier is never written.
SaveEffect_Never(newSessionId) ==
    /\ localStorage' = localStorage
    /\ storageOps' = << >>

SaveEffect(newSessionId) ==
    IF newSessionId # sessionId /\ newSessionId # NoSession
    THEN /\ localStorage' = newSessionId
         /\ storageOps' = << SetItem(newSessionId) >>
    ELSE /\ localStorage' = localStorage
         /\ storageOps' = << >>

RequestSettles(outcome) ==
    /\ requests # << >>
    /\ LET req == Head(requests) IN
       /\ requests' = Tail(requests)
       /\ IF IsSuccess(outcome)
          THEN /\ sessionId' = AdoptedSession(req, outcome)
               /\ messages' = Append(messages, AssistantMessage(outcome))
               /\ error' = error
          ELSE /\ sessionId' = sessionId
               /\ error' = ErrorMessage(outcome)
               /\ messages' = Append(messages, ErrorMsg(outcome))
       /\ isLoading' = FinallyIsLoading(outcome)
       /\ SaveEffect(sessionId')
       /\ call' = Call("settle", req.question, TRUE, outcome)
    /\ UNCHANGED << onInit, onInitCalls, closeToggled, revealVars >>
    /\ UNCHANGED << baseUrl, welcomeMessage, isOpen, isAnimating, apiClientRef,
                    timers, now >>

\* ------------------------------------------------------- handleClearChat
\* Mutant: the clear forgets localStorage.removeItem.
HandleClearChat_KeepsStorage ==
    /\ ModalRendered
    /\ messages' = IF welcomeMessage # <<>> THEN << WelcomeMsg(now) >> ELSE << >>
    /\ sessionId' = NoSession
    /\ storageOps' = << >>
    /\ call' = Call("clear", <<>>, FALSE, NoOutcome)
    /\ UNCHANGED << onInit, onInitCalls, closeToggled, revealVars >>
    /\ UNCHANGED << baseUrl, welcomeMessage, isOpen, isAnimating, isLoading,
                    error, apiClientRef, requests, timers, now, localStorage >>

HandleClearChat ==
    /\ ModalRendered
    /\ messages' = IF welcomeMessage # <<>> THEN << WelcomeMsg(now) >> ELSE << >>
    /\ sessionId' = NoSession
    /\ localStorage' = NoSession
    /\ storageOps' = << RemoveItem >>
    /\ call' = Call("clear", <<>>, FALSE, NoOutcome)
    /\ UNCHANGED << onInit, onInitCalls, closeToggled, revealVars >>
    /\ UNCHANGED << baseUrl, welcomeMessage, isOpen, isAnimating, isLoading,
                    error, apiClientRef, requests, timers, now >>

\* ------------------------------------------------------------------ spec
Next ==
    \/ Reload
    \/ ToggleModal
    \/ TimerFires
    \/ \E question \in Questions : HandleSendMessage(question)
    \/ \E followUpQuestion \in FollowUps : HandleFollowUpClick(followUpQuestion)
    \/ \E outcome \in Outcomes : RequestSettles(outcome)
    \/ HandleClearChat

Spec == Init /\ [][Next]_vars

\* ------------------------------------------------------ parent re-render
\* The callbacks a parent can pass as onInit: one kept across its renders
\* and a function created anew by a render (onInit={() => ...}).
OnInitProps == { "f1", "f2" }

\* The parent renders the widget again with the callback f.  The
\* initialization effect depends on [baseUrl, sessionStorageKey, onInit]
\* and runs again when the identity of onInit has changed.
ParentRerender(f) ==
    /\ onInitCalls < MaxOnInitCalls
    /\ onInit' = f
    /\ IF f = onInit
       THEN UNCHANGED << error, apiClientRef, sessionId, localStorage, onInitCalls >>
            /\ storageOps' = << >>
       ELSE IF baseUrl = ""
            THEN /\ error' = BaseUrlRequired
                 /\ storageOps' = << >>
                 /\ UNCHANGED << apiClientRef, sessionId, localStorage, onInitCalls >>
            ELSE /\ apiClientRef' = TRUE
                 /\ sessionId' = IF localStorage # NoSession THEN localStorage
                                 ELSE sessionId
                 /\ SaveEffect(sessionId')
                 /\ onInitCalls' = onInitCalls + 1
                 /\ error' = error
    /\ call' = Call("rerender", <<>>, FALSE, NoOutcome)
    /\ UNCHANGED << baseUrl, welcomeMessage, isOpen, isAnimating, messages,
                    isLoading, requests, timers, now, closeToggled, revealVars >>

NextProps ==
    \/ Next
    \/ \E f \in OnInitProps : ParentRerender(f)

SpecProps == Init /\ [][NextProps]_vars

\* ---------------------------------------------------------- MessageBubble
\* Mutant: error messages are not told apart by their id.
ShouldUseTypewriter_ErrorsToo(m, enabled) ==
    enabled /\ m.type = "assistant" /\ ~m.skipTypewriter

ShouldUseTypewriter(m, enabled) ==
    /\ enabled
    /\ m.type = "assistant"
    /\ m.id.kind # "error"
    /\ ~m.skipTypewriter

\* The text MessageBubble hands to useTypewriter.
HookText(m, enabled) ==
    IF ShouldUseTypewriter(m, enabled) THEN m.content ELSE << >>

DisplayText(m, enabled, shown) ==
    IF ShouldUseTypewriter(m, enabled) THEN shown ELSE m.content

\* Mutant: the follow-up is offered while the reveal is running.
HasFollowUp_WhileTyping(m, typing) == m.followUpQuestion # null

HasFollowUp(m, typing) == m.followUpQuestion # null /\ ~typing

\* String.prototype.indexOf (zero-based, -1 when absent) and includes.
IndexOf(s, sub) ==
    LET At == { i \in 1..(Len(s) - Len(sub) + 1) :
                    SubSeq(s, i, i + Len(sub) - 1) = sub }
    IN IF At = {} THEN -1
       ELSE (CHOOSE i \in At : \A j \in At : i <= j) - 1

Includes(s, sub) == IndexOf(s, sub) # -1

\* followUpText after the two branches that split the displayed text.
FollowUpText(m, typing, display) ==
    IF HasFollowUp(m, typing) /\ ~Includes(display, m.followUpQuestion)
    THEN null
    ELSE m.followUpQuestion

AnswerText(m, typing, display) ==
    IF HasFollowUp(m, typing) /\ Includes(display, m.followUpQuestion)
    THEN Trim(SubSeq(display, 1, IndexOf(display, m.followUpQuestion)))
    ELSE display

\* The follow-up button is rendered.
FollowUpButton(m, typing, display) ==
    HasFollowUp(m, typing) /\ FollowUpText(m, typing, display) # null

\* enableTypewriter as Widget passes it.
WidgetEnableTypewriter(speed) == speed > 0

\* ----------------------------------------------------------- useTypewriter
\* Mutant: a speed of 0 starts a reveal like any other speed.
HookImmediate_EmptyOnly(t, speed) == t = << >>

\* The hook shows the whole text at once, without a timer.
HookImmediate(t, speed) == speed = 0 \/ t = << >>

\* Mutant: a reset leaves the timer of the previous text running.
HookCancel_Keeps(ivs) == ivs

\* A reset invalidates the timer of the previous text.
HookCancel(ivs) == { }

\* Mutant: a tick reveals two characters.
NextShown_TwoChars(shown, t) ==
    SubSeq(t, 1, IF Len(shown) + 2 <= Len(t) THEN Len(shown) + 2 ELSE Len(t))

\* What a tick of the timer for text t shows after `shown`.
NextShown(shown, t) ==
    SubSeq(t, 1, IF Len(shown) + 1 <= Len(t) THEN Len(shown) + 1 ELSE Len(t))

\* Mutant: the reveal is never found complete.
TickDone_Never(shown, t) == FALSE

\* The reveal of t is complete.
TickDone(shown, t) == shown = t

\* The hook is rendered with a text for the first time or with a new text.
HookStart(t, speed, ivs) ==
    /\ text' = t
    /\ IF HookImmediate(t, speed)
       THEN /\ displayedText' = t
            /\ isTyping' = FALSE
            /\ intervals' = HookCancel(ivs)
       ELSE /\ displayedText' = << >>
            /\ isTyping' = TRUE
            /\ intervals' = HookCancel(ivs) \cup { t }

\* ------------------------------------------------ one bubble and its hook
Speeds == { 0, 30 }

\* Contents and follow-up questions of the messages a bubble is given: an
\* answer alone, an answer that contains its follow-up question, and a
\* content in which the follow-up question does not occur.
BubbleAssistants ==
    { ChatMessage(MessageId("assistant", 0), "assistant", c[1], 0, c[2]) :
        c \in { << <<"O", "k">>, null >>,
                << <<"b", "\n", "\n", "b">>, <<"b">> >>,
                << <<"O", "k">>, <<"b">> >> } }

BubbleMessages ==
    LET fresh == BubbleAssistants
                 \cup { ChatMessage(MessageId("user", 0), "user", <<"h", "i">>, 0, null),
                        ChatMessage(MessageId("error", 0), "assistant",
                                    ErrorPrefix \o NetworkError, 0, null),
                        ChatMessage(MessageId("welcome", 0), "assistant",
                                    DefaultWelcome, 0, null) }
    IN fresh \cup { [ m EXCEPT !.skipTypewriter = TRUE ] : m \in fresh }

\* The widget variables, which a bubble does not touch.
widgetVars == << baseUrl, welcomeMessage, isOpen, isAnimating, messages,
                 isLoading, error, sessionId, apiClientRef, localStorage,
                 requests, timers, now, storageOps, onInit, onInitCalls,
                 closeToggled >>

WidgetIdle ==
    /\ baseUrl = "http://localhost:8080"
    /\ welcomeMessage = << >>
    /\ isOpen = FALSE
    /\ isAnimating = FALSE
    /\ messages = << >>
    /\ isLoading = FALSE
    /\ error = null
    /\ sessionId = NoSession
    /\ apiClientRef = TRUE
    /\ localStorage = NoSession
    /\ requests = << >>
    /\ timers = << >>
    /\ now = 0
    /\ storageOps = << >>
    /\ onInit = "f1"
    /\ onInitCalls = 1
    /\ closeToggled = FALSE

\* The record of a step of the bubble: the operation and what the hook
\* returned before it.
BubbleCall(op, typingBefore, shownBefore) ==
    [ op |-> op, typingBefore |-> typingBefore, shownBefore |-> shownBefore ]

\* A bubble is mounted: its first render starts the hook.
InitReveal ==
    /\ WidgetIdle
    /\ call = BubbleCall("render", FALSE, << >>)
    /\ message \in BubbleMessages
    /\ typewriterSpeed \in Speeds
    /\ enableTypewriter \in { WidgetEnableTypewriter(typewriterSpeed), TRUE, FALSE }
    /\ text = HookText(message, enableTypewriter)
    /\ displayedText = IF HookImmediate(text, typewriterSpeed) THEN text ELSE << >>
    /\ isTyping = ~HookImmediate(text, typewriterSpeed)
    /\ intervals = IF HookImmediate(text, typewriterSpeed) THEN { } ELSE { text }

\* The bubble is rendered with another message; the hook starts again when
\* its text is another one.
BubbleRerender(m) ==
    /\ m # message
    /\ message' = m
    /\ LET t == HookText(m, enableTypewriter) IN
       IF t # text
       THEN HookStart(t, typewriterSpeed, intervals)
       ELSE UNCHANGED << text, displayedText, isTyping, intervals >>
    /\ call' = BubbleCall("rerender", isTyping, displayedText)
    /\ UNCHANGED << enableTypewriter, typewriterSpeed, widgetVars >>

\* A timer of the hook fires.
TypewriterTick ==
    /\ \E t \in intervals :
        /\ displayedText' = NextShown(displayedText, t)
        /\ IF TickDone(displayedText', t)
           THEN /\ isTyping' = FALSE
                /\ intervals' = intervals \ { t }
           ELSE UNCHANGED << isTyping, intervals >>
    /\ call' = BubbleCall("tick", isTyping, displayedText)
    /\ UNCHANGED << message, enableTypewriter, typewriterSpeed, text, widgetVars >>

NextReveal ==
    \/ \E m \in BubbleMessages : BubbleRerender(m)
    \/ TypewriterTick

SpecReveal == InitReveal /\ [][NextReveal]_vars

\* The timer is served as long as it runs.
SpecRevealFair == SpecReveal /\ WF_vars(TypewriterTick)


\* ----------------------------------------------- vocabulary of the claims
Blank(q) == \A i \in 1..Len(q) : IsSpace(q[i])

Last(msgs) == msgs[Len(msgs)]

\* The step is a call of handleSendMessage.
SendStep == call'.op = "send" /\ vars' # vars
\* The step is an accepted call: one more request is outstanding after it.
AcceptedSendStep == call'.op = "send" /\ Len(requests') = Len(requests) + 1
\* The step is the conclusion of a send attempt.
SettleStep == call'.op = "settle" /\ requests # << >> /\ requests' = Tail(requests)

SuccessPayload(outcome) == outcome.kind = "json" /\ outcome.status /\ outcome.code = "00"

\* C1: send(q) is a no-op when q is empty or whitespace-only, when a
\* request is in flight, or when no API client exists: no message is
\* appended, no request is issued, and isLoading, error and sessionId keep
\* their values.
C1_SendNoOp ==
    [][ (call'.op = "send" /\ (Blank(call'.question) \/ isLoading \/ ~apiClientRef))
        => /\ messages' = messages
           /\ requests' = requests
           /\ isLoading' = isLoading
           /\ error' = error
           /\ sessionId' = sessionId
           /\ localStorage' = localStorage ]_vars

C1_Witness ==
    /\ call.op = "send"
    /\ call.question = <<" ", " ", " ">>
    /\ ~isLoading
    /\ apiClientRef
    /\ requests = << >>

\* C2: at most one request is outstanding in every reachable state, and a
\* send issued while a request is outstanding appends no message and adds
\* no request, neither at once nor later (there is no queue of questions).
C2_OneOutstanding ==
    /\ [](Len(requests) <= 1)
    /\ [][ (call'.op = "send" /\ requests # << >>)
           => (messages' = messages /\ requests' = requests) ]_vars

C2_Witness ==
    /\ call.op = "send"
    /\ ~Blank(call.question)
    /\ ~call.accepted
    /\ Len(requests) = 1

\* C3 (as claimed): when an accepted send resolves successfully the list is
\* the list before the send plus two messages, the user message and then
\* one assistant message whose followUpQuestion is the response's.
C3_GrownByTwo ==
    [][ (SettleStep /\ SuccessPayload(call'.outcome))
        => /\ Len(messages') = Head(requests).lenBefore + 2
           /\ messages'[Len(messages') - 1].type = "user"
           /\ Last(messages').type = "assistant"
           /\ Last(messages').id.kind = "assistant"
           /\ Last(messages').followUpQuestion = call'.outcome.follow_up_question ]_vars

\* C4: an accepted send appends exactly one user message, and when its
\* request fails the continuation appends exactly one message of type
\* assistant with an error id, whose content is the apology prefix followed
\* by the error text that is recorded as the error state.
C4_FailedSend ==
    [][ /\ AcceptedSendStep
           => /\ Len(messages') = Len(messages) + 1
              /\ SubSeq(messages', 1, Len(messages)) = messages
              /\ Last(messages').type = "user"
              /\ Last(messages').id.kind = "user"
        /\ (SettleStep /\ ~SuccessPayload(call'.outcome))
           => /\ Len(messages') = Len(messages) + 1
              /\ SubSeq(messages', 1, Len(messages)) = messages
              /\ Last(messages').type = "assistant"
              /\ Last(messages').id.kind = "error"
              /\ error' # null
              /\ Last(messages').content = ErrorPrefix \o error' ]_vars

C4_Witness ==
    /\ call.op = "settle"
    /\ call.outcome.kind = "reject"
    /\ Len(messages) >= 2
    /\ messages[Len(messages) - 1].id.kind = "user"
    /\ Last(messages).id.kind = "error"
    /\ error = NetworkError

\* C5: when a send attempt concludes, by success or by failure, isLoading
\* is false again; whenever no request is outstanding isLoading is false,
\* and a send with non-blank text is then accepted: it appends a user
\* message and dispatches a request.
C5_NeverBlocked ==
    /\ [](requests = << >> => ~isLoading)
    /\ [][ /\ SettleStep => ~isLoading'
           /\ (SendStep /\ ~Blank(call'.question) /\ requests = << >> /\ apiClientRef)
              => /\ Len(requests') = 1
                 /\ Len(messages') = Len(messages) + 1
                 /\ Last(messages').type = "user" ]_vars

\* A send accepted after an earlier send failed.
C5_Witness ==
    /\ call.op = "send"
    /\ call.accepted
    /\ Len(requests) = 1
    /\ Len(messages) >= 3
    /\ messages[Len(messages) - 1].id.kind = "error"
    /\ Last(messages).id.kind = "user"

\* The success path of the continuation appends an answer message and
\* records no error; the failure path appends an error message.
TookSuccessPath ==
    /\ Len(messages') = Len(messages) + 1
    /\ Last(messages').id.kind = "assistant"
    /\ error' = error

TookFailurePath ==
    /\ Len(messages') = Len(messages) + 1
    /\ Last(messages').id.kind = "error"

C7_OneWriteWhenNew ==
    [][ (SettleStep /\ SuccessPayload(call'.outcome))
        => storageOps' = IF call'.outcome.session_id # sessionId
                         THEN << SetItem(call'.outcome.session_id) >>
                         ELSE << >> ]_vars

\* C8: handleClearChat leaves the list empty when no welcome message is
\* configured and holding exactly one welcome message when one is, sets
\* sessionId to null and removes the localStorage entry.
C8_Clear ==
    call.op = "clear"
    => /\ IF welcomeMessage = <<>>
          THEN messages = << >>
          ELSE /\ Len(messages) = 1
               /\ messages[1].id.kind = "welcome"
               /\ messages[1].content = welcomeMessage
       /\ sessionId = NoSession
       /\ localStorage = NoSession
       /\ storageOps = << RemoveItem >>

\* A clear issued while a request was outstanding.
C8_Witness ==
    /\ call.op = "clear"
    /\ requests # << >>
    /\ Len(messages) = 1

\* C9: after a successful initialization the stored session identifier is
\* the current one, and a request carries the identifier that is in
\* localStorage when the send is issued; so the first request after a
\* reload carries the identifier stored before the reload.
C9_RestoredSession ==
    /\ []((call.op = "initialize" /\ apiClientRef) => sessionId = localStorage)
    /\ [][ AcceptedSendStep
           => Last(requests').session_id = localStorage ]_vars

\* The first request after a mount carries a restored identifier.
C9_Witness ==
    /\ call.op = "send"
    /\ call.accepted
    /\ Len(requests) = 1
    /\ requests[1].session_id \in Sessions
    /\ \A i \in 1..Len(messages) : messages[i].id.kind \in {"welcome", "user"}

\* The step received a session identifier that is not the current one.
ReceivedNewSession ==
    /\ SettleStep
    /\ SuccessPayload(call'.outcome)
    /\ call'.outcome.session_id # sessionId

\* C10 (as claimed): localStorage is written or removed only by a step that
\* receives a new session identifier or by a clear; initialization, open,
\* close and the other sends make no localStorage call.
C10_WritesOnlyOnNewOrClear ==
    [][ storageOps' # << >>
        => (call'.op = "clear" \/ ReceivedNewSession) ]_vars

\* C10 (amended): localStorage is written or removed only by a step that
\* receives a new session identifier, by a clear, or by an initialization
\* that found an identifier in the slot, which writes that identifier back
\* and leaves the slot's content as it was; opening, closing, a failed send
\* and a send returning the unchanged identifier make no localStorage call.
C10_WritesOnlyOnNewClearOrRestore ==
    /\ [](call.op = "initialize"
          => /\ storageOps \in { << >>, << SetItem(localStorage) >> }
             /\ storageOps # << >> => localStorage # NoSession)
    /\ [][ /\ call'.op = "initialize" => localStorage' = localStorage
           /\ (storageOps' # << >> /\ call'.op # "initialize")
              => \/ call'.op = "clear" /\ storageOps' = << RemoveItem >>
                 \/ ReceivedNewSession
                    /\ storageOps' = << SetItem(call'.outcome.session_id) >>
           /\ localStorage' # localStorage
              => (call'.op = "clear" \/ ReceivedNewSession) ]_vars

\* A failed send made no localStorage call and left the stored identifier.
C10_Witness ==
    /\ call.op = "settle"
    /\ ~SuccessPayload(call.outcome)
    /\ storageOps = << >>
    /\ localStorage \in Sessions


\* C11: with an empty baseUrl the initialization sets the error state and
\* does not call onInit; from then on every send is a no-op, no request is
\* dispatched, no API client exists and the error state stays.
C11_MissingBaseUrl ==
    baseUrl = ""
    => /\ error = BaseUrlRequired
       /\ onInitCalls = 0
       /\ ~apiClientRef
       /\ requests = << >>
       /\ ~isLoading
       /\ \A i \in 1..Len(messages) : messages[i].id.kind = "welcome"

\* A non-blank send was tried without a baseUrl.
C11_Witness ==
    /\ baseUrl = ""
    /\ ModalRendered
    /\ call.op = "send"
    /\ call.question = << " ", "h", "i", " " >>

\* C12 (as claimed): with a valid baseUrl onInit has been called exactly
\* once in every state of one activation, whatever re-renders, toggles,
\* sends and clears have happened.
C12_OnInitOnce ==
    baseUrl # "" => onInitCalls = 1


\* The step that opens the modal: toggleModal with isOpen false.
OpenStep == call'.op = "toggle" /\ ~isOpen /\ isOpen'

\* C13: an open with an empty message list and a configured welcome
\* message leaves exactly the welcome message, with skipTypewriter false;
\* an open with messages in the list leaves the same messages, every one
\* with skipTypewriter true, whether it arrived while the modal was open or
\* closed.
C13_OpenFlags ==
    [][ OpenStep =>
          IF messages = << >>
          THEN IF welcomeMessage # << >>
               THEN /\ Len(messages') = 1
                    /\ messages'[1].id.kind = "welcome"
                    /\ messages'[1].content = welcomeMessage
                    /\ messages'[1].skipTypewriter = FALSE
               ELSE messages' = << >>
          ELSE /\ Len(messages') = Len(messages)
               /\ \A i \in 1..Len(messages) :
                      /\ messages'[i].skipTypewriter = TRUE
                      /\ messages'[i] = [ messages[i] EXCEPT !.skipTypewriter = TRUE ]
      ]_vars

\* The modal was opened again over a conversation whose answer had not
\* arrived when the user message was sent.
C13_Witness ==
    /\ call.op = "toggle"
    /\ isOpen
    /\ timers # << >>
    /\ timers[Len(timers)] = "anim"
    /\ Len(messages) >= 2
    /\ messages[Len(messages)].id.kind \in { "assistant", "error" }
    /\ \A i \in 1..Len(messages) : messages[i].skipTypewriter = TRUE


\* C20: the assistant message appended on success has the answer as its
\* content when the response carries no follow-up question, and the answer,
\* two newlines and the follow-up question when it carries one; its
\* skipTypewriter flag is false.
C20_SuccessContent ==
    [][ (SettleStep /\ SuccessPayload(call'.outcome)) =>
          LET answer == call'.outcome.answer
              follow_up_question == call'.outcome.follow_up_question
              appended == Last(messages')
          IN /\ Len(messages') = Len(messages) + 1
             /\ appended.type = "assistant"
             /\ appended.skipTypewriter = FALSE
             /\ appended.followUpQuestion = follow_up_question
             /\ IF follow_up_question = null
                THEN appended.content = answer
                ELSE appended.content =
                         answer \o << "\n", "\n" >> \o follow_up_question
      ]_vars

\* A successful response with a follow-up question has been appended.
C20_Witness ==
    /\ call.op = "settle"
    /\ SuccessPayload(call.outcome)
    /\ call.outcome.follow_up_question # null
    /\ messages # << >>
    /\ Last(messages).content = << "O", "k", "\n", "\n", "M", "o", "r", "e", "?" >>


\* s is a prefix of t.
IsPrefix(s, t) == Len(s) <= Len(t) /\ s = SubSeq(t, 1, Len(s))

\* What the bubble shows.
Shown == DisplayText(message, enableTypewriter, displayedText)

\* C14: the follow-up button is rendered only while the reveal of the
\* message is not in progress and the message has a follow-up question.
C14_FollowUpGated ==
    FollowUpButton(message, isTyping, Shown)
    => ~isTyping /\ message.followUpQuestion # null

\* The button is shown after the reveal of an answer with a follow-up.
C14_Witness ==
    /\ call.op = "tick"
    /\ ~message.skipTypewriter
    /\ enableTypewriter
    /\ message.followUpQuestion # null
    /\ displayedText = message.content
    /\ FollowUpButton(message, isTyping, Shown)

\* C15: a user message and a message with an error id are shown in full
\* and isTyping is false for them in every state, whatever the speed.
C15_NoRevealForUserAndError ==
    (message.type = "user" \/ message.id.kind = "error")
    => /\ ~isTyping
       /\ intervals = { }
       /\ Shown = message.content

\* An unflagged error message was rendered, in a bubble whose typewriter is
\* enabled with a positive speed, in place of a message that was being
\* revealed.
C15_Witness ==
    /\ call.op = "rerender"
    /\ call.typingBefore
    /\ message.id.kind = "error"
    /\ ~message.skipTypewriter
    /\ enableTypewriter
    /\ typewriterSpeed > 0


\* The step renders the hook with another text.
ResetStep == text' # text

\* C16: when the text changes, displayedText becomes empty and isTyping
\* true, unless the new text is empty or the speed is 0; no timer of an
\* earlier text is left running, and displayedText is a prefix of the
\* current text in every state.
C16_ResetCancels ==
    /\ [][ ResetStep =>
             IF text' = << >> \/ typewriterSpeed' = 0
             THEN displayedText' = text' /\ ~isTyping'
             ELSE displayedText' = << >> /\ isTyping'
       ]_vars
    /\ [](intervals \subseteq { text })
    /\ [](IsPrefix(displayedText, text))

\* The text was changed in the middle of a reveal to another text to
\* reveal.
C16_Witness ==
    /\ call.op = "rerender"
    /\ call.typingBefore
    /\ call.shownBefore = << "O" >>
    /\ isTyping
    /\ displayedText = << >>
    /\ text = << "b", "\n", "\n", "b" >>
    /\ intervals = { text }

\* C17: for every non-empty text and positive speed the reveal ends unless
\* the text changes: displayedText equals the text and isTyping is false;
\* once isTyping is false no timer runs and nothing but a new text changes
\* what is displayed.
C17_RevealTerminates ==
    /\ \A m \in BubbleMessages :
          (text = m.content /\ typewriterSpeed > 0)
          ~> ((displayedText = text /\ ~isTyping) \/ text # m.content)
    /\ [](~isTyping => intervals = { } /\ displayedText = text)
    /\ [][ (~isTyping /\ text' = text) => (displayedText' = displayedText /\ ~isTyping') ]_vars

\* The reveal of a text of several characters has ended with a tick.
C17_Witness ==
    /\ call.op = "tick"
    /\ typewriterSpeed > 0
    /\ Len(text) > 1
    /\ displayedText = text
    /\ ~isTyping
    /\ intervals = { }

\* C18: displayedText is a prefix of text whose length is within
\* 0..Len(text); a tick lengthens it by exactly one character, and while the
\* text is the same its length never decreases.
C18_PrefixGrowsByOne ==
    /\ [](IsPrefix(displayedText, text) /\ Len(displayedText) \in 0..Len(text))
    /\ [][ call'.op = "tick" =>
             /\ Len(displayedText') = Len(displayedText) + 1
             /\ displayedText' = SubSeq(text, 1, Len(displayedText) + 1) ]_vars
    /\ [][ text' = text => Len(displayedText') >= Len(displayedText) ]_vars

\* A tick in the middle of a reveal: more than one character shown, more
\* to come.
C18_Witness ==
    /\ call.op = "tick"
    /\ isTyping
    /\ Len(displayedText) > 1
    /\ Len(displayedText) < Len(text)

\* C19: with a speed of 0 or an empty text displayedText equals text and
\* isTyping is false in every state, the first included, and no timer runs;
\* with a speed of 0 the bubble never reveals, whether enableTypewriter is
\* what the widget passes or not.
C19_NoRevealAtSpeedZero ==
    /\ (typewriterSpeed = 0 \/ text = << >>)
       => (displayedText = text /\ ~isTyping /\ intervals = { })
    /\ typewriterSpeed = 0 => (~isTyping /\ Shown = message.content)

\* A text to reveal was handed to the hook with a speed of 0.
C19_Witness ==
    /\ typewriterSpeed = 0
    /\ enableTypewriter
    /\ text # << >>
    /\ call.op = "rerender"
    /\ displayedText = text


\* C21: when the send fails on a payload whose status flag is false, the
\* recorded error and the content of the error message contain the
\* payload's message; when it fails on a non-2xx HTTP status, they contain
\* the generic HTTP error text, whatever the body of the response says.
C21_FailureReason ==
    [][ SettleStep =>
          LET outcome == call'.outcome
              shown == Last(messages').content
          IN /\ (outcome.kind = "json" /\ ~outcome.status)
                => /\ TookFailurePath
                   /\ Includes(error', outcome.message)
                   /\ Includes(shown, outcome.message)
                   /\ shown = ErrorPrefix \o error'
             /\ outcome.kind = "http"
                => /\ TookFailurePath
                   /\ Includes(error', HttpErrorPrefix)
                   /\ Includes(shown, HttpErrorPrefix)
                   /\ error' = HttpErrorPrefix \o << "5", "0", "0" >>
      ]_vars

\* A payload with status false and a message has been reported.
C21_Witness ==
    /\ call.op = "settle"
    /\ call.outcome.kind = "json"
    /\ ~call.outcome.status
    /\ call.outcome.message = QuestionCannotBeEmpty
    /\ error = QuestionCannotBeEmpty
    /\ Last(messages).id.kind = "error"


\* C22: the request of an accepted send carries the question without its
\* leading and trailing whitespace and the session identifier current at
\* the send; it carries no session_id exactly when there is none.
C22_RequestPayload ==
    [][ AcceptedSendStep =>
          LET req == Last(requests')
              q == req.question
          IN /\ q = Trim(call'.question)
             /\ q # << >>
             /\ ~IsSpace(q[1]) /\ ~IsSpace(q[Len(q)])
             /\ Includes(call'.question, q)
             /\ req.session_id = sessionId
             /\ (req.session_id = NoSession) <=> (sessionId = NoSession)
      ]_vars

\* A padded question was sent within a session.
C22_Witness ==
    /\ call.op = "send"
    /\ call.accepted
    /\ call.question = << " ", "h", "i", " " >>
    /\ requests # << >>
    /\ Last(requests).question = << "h", "i" >>
    /\ Last(requests).session_id = "s1"
    /\ sessionId = "s1"


\* C23: a click on a follow-up button changes the state exactly as
\* send("Yes") does in the same state, whatever the text of the button: it
\* is a no-op under the guards of send, and otherwise appends the user
\* message "Yes" and issues the request for "Yes".
C23_FollowUpIsSendYes ==
    [][ call'.op = "followUp" =>
          /\ call'.question \in FollowUpButtons
          /\ IF isLoading \/ ~apiClientRef
             THEN /\ ~call'.accepted
                  /\ UNCHANGED << messages, requests, isLoading, error >>
             ELSE /\ call'.accepted
                  /\ messages' = Append(messages, UserMessage(Yes))
                  /\ requests' = Append(requests, Request(Yes))
                  /\ Last(requests').question = << "Y", "e", "s" >>
                  /\ isLoading'
                  /\ error' = null
          /\ UNCHANGED << sessionId, localStorage, isOpen, isAnimating, timers >>
          /\ storageOps' = << >>
      ]_vars

\* A follow-up button was clicked and "Yes" is on its way.
C23_Witness ==
    /\ call.op = "followUp"
    /\ call.accepted
    /\ call.question = << "M", "o", "r", "e", "?" >>
    /\ Last(messages).content = Yes
    /\ requests # << >>


\* C24 (as claimed): after a page reload every message of the list before
\* the reload is still in the list.
C24_HistoryPersists ==
    [][ call'.op = "initialize" =>
          \A i \in 1..Len(messages) :
              \E j \in 1..Len(messages') :
                  /\ messages'[j].type = messages[i].type
                  /\ messages'[j].content = messages[i].content
      ]_vars

\* C25 (as claimed): every assistant answer message and every error
\* message of the list comes right after a user message.
C25_AnswerFollowsQuestion ==
    \A i \in 1..Len(messages) :
        messages[i].id.kind \in { "assistant", "error" }
        => (i > 1 /\ messages[i - 1].type = "user")

\* m is the message old, or old with its skipTypewriter flag set.
SameButFlag(old, m) ==
    m = old \/ m = [ old EXCEPT !.skipTypewriter = TRUE ]

\* C26: a step other than a clear (or a new mount) keeps every message of
\* the list at its place and changes nothing of it but skipTypewriter,
\* from unset to true; new messages come at the end.
C26_AppendOnly ==
    [][ call'.op \notin { "clear", "initialize" } =>
          /\ Len(messages') >= Len(messages)
          /\ \A i \in 1..Len(messages) : SameButFlag(messages[i], messages'[i])
      ]_vars

\* The list has grown at its end after an open had flagged its first
\* messages.
C26_Witness ==
    /\ call.op = "settle"
    /\ Len(messages) = 3
    /\ messages[1].skipTypewriter
    /\ messages[2].skipTypewriter
    /\ ~messages[3].skipTypewriter

\* C27 (as claimed): the ids of the messages of the list are pairwise
\* distinct and each names the kind of its message.
C27_DistinctIds ==
    /\ \A i, j \in 1..Len(messages) : i # j => messages[i].id # messages[j].id
    /\ \A i \in 1..Len(messages) :
          /\ messages[i].id.kind \in { "user", "assistant", "welcome", "error" }
          /\ (messages[i].id.kind = "user") <=> (messages[i].type = "user")

\* C28: with a baseUrl the value stored under the storage key equals
\* sessionId in every state; nothing is stored exactly when sessionId is
\* null.
C28_StorageMirrorsSession ==
    baseUrl # ""
    => /\ localStorage = sessionId
       /\ (localStorage = NoSession) <=> (sessionId = NoSession)

\* A response has replaced the session of an earlier one.
C28_Witness ==
    /\ call.op = "settle"
    /\ SuccessPayload(call.outcome)
    /\ call.outcome.session_id = "s2"
    /\ storageOps = << SetItem("s2") >>
    /\ sessionId = "s2"
    /\ localStorage = "s2"
    /\ Len(messages) = 3


\* C29 (as claimed): when a timer closes the modal, toggleModal has been
\* called since the modal was last opened.
C29_ClosesOnlyOnToggle ==
    [][ (call'.op = "timer" /\ isOpen /\ ~isOpen') => closeToggled ]_vars


\* The content of m is an answer, a blank line and the follow-up question
\* of m, as handleSendMessage builds it.
HasAppendedFollowUp(m) ==
    /\ m.followUpQuestion # null
    /\ Len(m.content) >= Len(m.followUpQuestion) + 2
    /\ SubSeq(m.content, Len(m.content) - Len(m.followUpQuestion) - 1, Len(m.content))
           = << "\n", "\n" >> \o m.followUpQuestion

\* The answer of the response from which m was built.
AnswerOf(m) == SubSeq(m.content, 1, Len(m.content) - Len(m.followUpQuestion) - 2)

\* C30 (as claimed): whenever the follow-up button of an assistant message
\* is shown, the answer text displayed with it is the answer of the
\* response without its surrounding whitespace.
C30_AnswerShownWhole ==
    (message.type = "assistant"
       /\ HasAppendedFollowUp(message)
       /\ FollowUpButton(message, isTyping, Shown))
    => AnswerText(message, isTyping, Shown) = Trim(AnswerOf(message))

====
